---- MODULE Spec2Model ----
(***************************************************************************)
(* Cart mutation protocol of the storefront: the /api/cart handlers        *)
(* (get, add/adjust, remove), the /api/orders checkout handler and the     *)
(* credentials authorize callback, run by concurrent request handlers      *)
(* against one relational store.  Every Prisma call is one atomic store    *)
(* step; the handlers' awaits are the interleaving points.                 *)
(* The cart page's quantity edit is the client of the add/adjust and       *)
(* remove handlers; the home listing (SpecHome) and the total over rows    *)
(* the handlers never store (SpecTotal) are run as specifications of       *)
(* their own.                                                              *)
(*                                                                         *)
(* Money: a product price is kept in cents; the running sum of the         *)
(* reduce() is kept in mills (tenths of a cent) and toFixed(2) rounds it   *)
(* back to cents.                                                          *)
(***************************************************************************)
EXTENDS Integers, FiniteSets, Sequences, TLC

\* ---------------------------------------------------------------- bounds
\* largest quantity a line is driven to (guards the increments)
MaxQty == 2
\* largest |quantity delta| a POST /api/cart body carries
MaxDelta == 2
\* the largest catalog of the home listing
MaxProducts == 13

\* ---------------------------------------------------------------- domains
\* concurrent request handlers
Procs == {"a", "b"}

\* absence markers (null in the source)
NoUser == 0
NoId == <<>>
NoUserRow == [id |-> NoUser, email |-> ""]
NoCart == [id |-> NoId, userId |-> NoUser]
NoItem == [id |-> NoId, cartId |-> NoId, productId |-> "", quantity |-> 0]

\* user ids: 1 is the seeded test user, 2 a user created by the OAuth
\* adapter (no cart), 3 the id given to a user created by authorize
SeedUser == [id |-> 1, email |-> "test.user@example.com"]
OAuthUser == [id |-> 2, email |-> "oauth@example.com"]
NewEmail == "new@example.com"
Emails == {SeedUser.email, OAuthUser.email, NewEmail}
\* the session of a cart/orders request: a signed-in user, or none
Sessions == {SeedUser.id, OAuthUser.id, NoUser}

\* product ids: two seeded products, a well-formed cuid that names no
\* product, and a body without a usable productId
Products == {"P1", "P2"}
MissingProduct == "PX"
BadProductId == ""
\* seeded prices in cents ("Phone Mount" 19.99, "USB-C Cable" 14.99)
Price == [P1 |-> 1999, P2 |-> 1499]

\* quantity deltas of a POST body: none, one unit, and the largest step,
\* in both directions
Deltas == {0 - MaxDelta, 0 - 1, 0, 1, MaxDelta}

\* ---------------------------------------------------------------- workloads
\* A run draws its requests from one workload: the session each handler
\* serves, the product ids and sign-in emails the requests carry, the
\* routes they hit, and the handlers whose store calls may be thrown.
CartOps == {"GET", "POST", "DELETE", "CHECKOUT"}
Everyone(S) == [p \in Procs |-> S]
Scopes == {
    \* one cart, two products (the second product through one handler)
    [name |-> "lines", sessions |-> Everyone({SeedUser.id}),
     products |-> [a |-> Products, b |-> {"P1"}], ops |-> CartOps,
     emails |-> {}, faults |-> {}],
    \* a user without a Cart row
    [name |-> "firstuse", sessions |-> Everyone({OAuthUser.id}),
     products |-> Everyone({"P1"}), ops |-> CartOps, emails |-> {},
     faults |-> {}],
    \* two users side by side, one product
    [name |-> "users", sessions |-> [a |-> {SeedUser.id}, b |-> {OAuthUser.id}],
     products |-> Everyone({"P1"}), ops |-> CartOps, emails |-> {},
     faults |-> {}],
    \* rejected requests: no session, bad method, bad body, unknown product
    [name |-> "errors", sessions |-> Everyone({OAuthUser.id, NoUser}),
     products |-> Everyone({"P1", MissingProduct, BadProductId}),
     ops |-> CartOps \cup {"PUT", "ORDERS_GET"}, emails |-> {},
     faults |-> {}],
    \* sign-in next to a first use
    [name |-> "signin", sessions |-> Everyone({OAuthUser.id}),
     products |-> Everyone({"P1"}), ops |-> {"AUTH", "GET", "POST"},
     emails |-> Emails \cup {""}, faults |-> {}],
    \* a store that may fail under one handler's add and remove requests
    [name |-> "outage", sessions |-> Everyone({SeedUser.id}),
     products |-> Everyone({"P1"}), ops |-> {"POST", "DELETE"},
     emails |-> {}, faults |-> {"a"}],
    \* quantity edits on one cart page
    [name |-> "client", sessions |-> [a |-> {SeedUser.id}, b |-> {}],
     products |-> Everyone(Products), ops |-> {"EDIT"},
     emails |-> {}, faults |-> {}]}

\* ---------------------------------------------------------------- handlers
\* a request: the route and method (op), the session's user, the body,
\* and for a request sent by the cart page the quantity the shopper asked for
NoReq == [op |-> "none", user |-> NoUser, productId |-> BadProductId,
          delta |-> 0, email |-> "", password |-> FALSE,
          edit |-> [set |-> FALSE, quantity |-> 0]]
\* a response: HTTP status, the error text or "", the returned lines and
\* total (cents), and the user id authorize returns
NoRes == [status |-> 0, error |-> "", lines |-> {}, total |-> 0, id |-> NoUser]
\* a handler between requests; fault records that a store call of the
\* request was thrown by the store itself
IdleProc == [pc |-> "idle", req |-> NoReq, cart |-> NoCart,
             existing |-> NoItem, total |-> 0,
             deleted |-> {}, res |-> NoRes, fault |-> FALSE]

VARIABLES
    users,   \* User rows      [id, email]
    carts,   \* Cart rows      [id, userId]
    items,   \* CartItem rows  [id, cartId, productId, quantity]
    procs,   \* per handler: position, request, locals, response
    win,     \* history: the store at the last quiescent request start
    scope,   \* the workload of this run: who asks for what
    home     \* the home listing: catalog, search term, pages served

vars == <<users, carts, items, procs, win, scope, home>>

\* ---------------------------------------------------------------- store
\* prisma.user.findUnique({where: {email}})
UserFindUnique(us, email) ==
    IF \E u \in us : u.email = email
    THEN CHOOSE u \in us : u.email = email
    ELSE NoUserRow

\* unique constraint User.email
UserEmailFreeAlways(us, email) == TRUE
UserEmailFree(us, email) == \A u \in us : u.email # email

\* id of a new User row (ids are opaque; the smallest unused one)
NewUserId(us) == CHOOSE n \in 1 .. (Cardinality(us) + 1) :
                    /\ \A u \in us : u.id # n
                    /\ \A m \in 1 .. (n - 1) : \E u \in us : u.id = m

\* prisma.cart.findUnique({where: {userId}})
CartFindUniqueAnyUser(cs, userId) ==
    IF cs # {} THEN CHOOSE c \in cs : TRUE ELSE NoCart
CartFindUnique(cs, userId) ==
    IF \E c \in cs : c.userId = userId
    THEN CHOOSE c \in cs : c.userId = userId
    ELSE NoCart

\* unique constraint Cart.userId, enforced by the store on insert
CartUserIdFreeNoCheck(cs, userId) == TRUE
CartUserIdFree(cs, userId) == \A c \in cs : c.userId # userId

\* id of a new Cart row: opaque, never equal to an existing one
NewCartId(cs, userId) ==
    <<userId, Cardinality({c \in cs : c.userId = userId})>>

\* prisma.cart.create({data: {userId}})
CartCreateReplacesAll(cs, userId) ==
    {[id |-> NewCartId(cs, userId), userId |-> userId]}
CartCreate(cs, userId) ==
    cs \cup {[id |-> NewCartId(cs, userId), userId |-> userId]}

\* cart.items of findUnique(... include: {items: ...})
ItemsOf(its, cartId) == {i \in its : i.cartId = cartId}

\* prisma.cartItem.findUnique({where: {cartId_productId}})
ItemFindUnique(its, cartId, productId) ==
    IF \E i \in its : i.cartId = cartId /\ i.productId = productId
    THEN CHOOSE i \in its : i.cartId = cartId /\ i.productId = productId
    ELSE NoItem

\* ids held by handlers that read a line and have not written yet
HeldItemIds ==
    {procs[p].existing.id : p \in {q \in Procs : procs[q].existing # NoItem}}

\* id of a new CartItem row: opaque and fresh, so it differs from every
\* stored id and from every id a handler still holds
NewItemId(its, cartId, productId) ==
    LET used == {i.id : i \in its} \cup HeldItemIds
        gen == CHOOSE g \in 0 .. Cardinality(used) :
                  /\ <<cartId, productId, g>> \notin used
                  /\ \A h \in 0 .. (g - 1) : <<cartId, productId, h>> \in used
    IN  <<cartId, productId, gen>>

\* update: { quantity: { increment: quantity } }
IncrementOverwrites(qty, n) == n
Increment(qty, n) == qty + n

\* prisma.cartItem.upsert: one INSERT .. ON CONFLICT (cartId, productId)
\* DO UPDATE SET quantity = quantity + n
ItemUpsertAlwaysInsert(its, cartId, productId, n) ==
    its \cup {[id |-> NewItemId(its, cartId, productId), cartId |-> cartId,
               productId |-> productId, quantity |-> n]}
ItemUpsert(its, cartId, productId, n) ==
    IF \E i \in its : i.cartId = cartId /\ i.productId = productId
    THEN {IF i.cartId = cartId /\ i.productId = productId
          THEN [i EXCEPT !.quantity = Increment(@, n)] ELSE i : i \in its}
    ELSE its \cup {[id |-> NewItemId(its, cartId, productId),
                    cartId |-> cartId, productId |-> productId,
                    quantity |-> n]}

\* prisma.cartItem.update({where: {id}, data: {quantity}})
ItemUpdate(its, id, qty) ==
    {IF i.id = id THEN [i EXCEPT !.quantity = qty] ELSE i : i \in its}

\* prisma.cartItem.delete({where: {id}})
ItemDeleteWholeCart(its, id) ==
    {i \in its : \A j \in its : j.id = id => i.cartId # j.cartId}
ItemDelete(its, id) == {i \in its : i.id # id}

\* prisma.cartItem.deleteMany({where: {cartId}})
ItemDeleteManyKeepFirst(its, cartId) ==
    {i \in its : i.cartId # cartId \/ i.productId = "P1"}
ItemDeleteMany(its, cartId) == {i \in its : i.cartId # cartId}

\* ---------------------------------------------------------------- total
\* items.reduce((sum, item) => sum + item.product.price * item.quantity, 0)
\* in mills
RECURSIVE ReduceTotal(_)
LineAmountNoQuantity(item) == Price[item.productId] * 10
LineAmount(item) == Price[item.productId] * 10 * item.quantity
ReduceTotal(rows) ==
    IF rows = {} THEN 0
    ELSE LET r == CHOOSE x \in rows : TRUE
         IN  LineAmount(r) + ReduceTotal(rows \ {r})

\* parseFloat(total.toFixed(2)): mills to the nearest cent
ToFixed2(mills) == (mills + 5) \div 10

\* the total a response carries
TotalOf(rows) == ToFixed2(ReduceTotal(rows))

\* the lines of a response: product and quantity of each included item
Lines(rows) == {[productId |-> i.productId, quantity |-> i.quantity] : i \in rows}

\* ---------------------------------------------------------------- history
\* A window opens when a request starts while no other request is in
\* flight: win keeps the store as it was then, the handler that opened it,
\* how many requests have started in it (capped), and what the request
\* before it answered when that one ran alone.
MaxStarts == Cardinality(Procs) + 1
NoPrev == [op |-> "none", user |-> NoUser, status |-> 0]
InFlight(q) == procs[q].pc \notin {"idle", "done"}
Quiescent(p) == \A q \in Procs \ {p} : ~InFlight(q)
PrevOf ==
    IF win.nstart = 1 /\ win.owner \in Procs /\ procs[win.owner].pc = "done"
    THEN [op |-> procs[win.owner].req.op, user |-> procs[win.owner].req.user,
          status |-> procs[win.owner].res.status]
    ELSE NoPrev

\* the response res to the request of handler record rec
Finish(rec, res) ==
    [IdleProc EXCEPT !.pc = "done", !.req = rec.req,
                     !.deleted = rec.deleted, !.res = res]
Ok(lines, total) == [NoRes EXCEPT !.status = 200, !.lines = lines, !.total = total]
Err(status, error) == [NoRes EXCEPT !.status = status, !.error = error]

\* once more requests have started in a window than there are handlers,
\* the window is stale: nothing is remembered of it, and responses are
\* no longer kept
StaleWin == [users |-> {}, carts |-> {}, items |-> {}, owner |-> "none",
             nstart |-> MaxStarts, prev |-> NoPrev]
Stale(w) == w.nstart >= MaxStarts

\* handler p takes up a request and becomes rec
Begin(p, rec) ==
    LET w == IF Quiescent(p)
             THEN [users |-> users, carts |-> carts, items |-> items,
                   owner |-> p, nstart |-> 1, prev |-> PrevOf]
             ELSE IF win.nstart + 1 >= MaxStarts THEN StaleWin
             ELSE [win EXCEPT !.nstart = @ + 1, !.owner = "none",
                              !.prev = NoPrev]
    IN  /\ ~InFlight(p)
        /\ win' = w
        /\ procs' = [q \in Procs |->
                       IF q = p
                       THEN IF Stale(w) /\ rec.pc = "done" THEN IdleProc ELSE rec
                       ELSE IF InFlight(q) THEN procs[q]
                       ELSE IF Quiescent(p) \/ Stale(w) THEN IdleProc
                       ELSE procs[q]]
        /\ scope' = scope
        /\ home' = home

\* handler p moves on to rec
Step(p, rec) ==
    /\ procs' = [procs EXCEPT ![p] =
                   IF Stale(win) /\ rec.pc = "done" THEN IdleProc ELSE rec]
    /\ win' = win
    /\ scope' = scope
    /\ home' = home

\* ---------------------------------------------------------------- /api/cart
\* quantity of the line (userId, productId), 0 when absent
QtyOf(cs, its, userId, productId) ==
    LET c == CartFindUnique(cs, userId)
        i == ItemFindUnique(its, c.id, productId)
    IN  IF c = NoCart THEN 0 ELSE i.quantity

\* increments other handlers have accepted for the line and not yet applied
Pending(p, userId, productId) ==
    LET qs == {q \in Procs \ {p} :
                 /\ procs[q].pc \in {"add_product", "add_findCart",
                                     "add_createCart", "add_upsert"}
                 /\ procs[q].req.user = userId
                 /\ procs[q].req.productId = productId
                 /\ procs[q].req.delta > 0}
        RECURSIVE Sum(_)
        Sum(S) == IF S = {} THEN 0
                  ELSE LET q == CHOOSE x \in S : TRUE
                       IN  procs[q].req.delta + Sum(S \ {q})
    IN  Sum(qs)

\* cartItemSchema.parse: productId a cuid string, quantity an integer
SchemaAcceptsPositiveOnly(productId, delta) ==
    productId # BadProductId /\ delta \in Int /\ delta > 0
SchemaAccepts(productId, delta) == productId # BadProductId /\ delta \in Int

\* handleRemoveFromCart: productId && typeof productId === "string"
HasProductIdAlways(productId) == TRUE
HasProductId(productId) == productId # BadProductId

\* !session || !session.user
HasSessionAlways(u) == TRUE
HasSession(u) == u # NoUser

\* handler(): session check, then dispatch on req.method; rec holds the
\* request, the result is the handler at its first store call or answered
Dispatch(rec) ==
    LET op == rec.req.op
    IN  IF ~HasSession(rec.req.user)
        THEN Finish(rec, Err(401, "Unauthorized"))
        ELSE IF op = "GET" THEN [rec EXCEPT !.pc = "get_find"]
        ELSE IF op = "POST"
        THEN IF SchemaAccepts(rec.req.productId, rec.req.delta)
             THEN [rec EXCEPT !.pc = "add_product"]
             ELSE Finish(rec, Err(400, "Validation failed"))
        ELSE IF op = "DELETE"
        THEN IF HasProductId(rec.req.productId)
             THEN [rec EXCEPT !.pc = "rm_findCart"]
             ELSE Finish(rec, Err(400, "Validation failed"))
        ELSE Finish(rec, Err(405, "Method not allowed"))

\* a request to /api/cart arrives at handler()
CartHandler(p) ==
    \E op \in scope.ops \cap {"GET", "POST", "DELETE", "PUT"},
       u \in scope.sessions[p], pid \in scope.products[p] \cup {BadProductId},
       d \in Deltas :
       LET req == [NoReq EXCEPT !.op = op, !.user = u,
                                !.productId = IF op \in {"POST", "DELETE"} THEN pid ELSE BadProductId,
                                !.delta = IF op = "POST" THEN d ELSE 0]
           rec == [IdleProc EXCEPT !.req = req]
       IN  \* one request per case the handler tells apart
           /\ IF op \in {"POST", "DELETE"} /\ u # NoUser
              THEN pid \in scope.products[p] ELSE pid = BadProductId
           /\ (op # "POST" \/ pid = BadProductId) => d = 0
           \* keeps every line within MaxQty
           /\ (op = "POST" /\ d > 0 /\ pid \in Products) =>
                 QtyOf(carts, items, u, pid) + Pending(p, u, pid) + d <= MaxQty
           /\ UNCHANGED <<users, carts, items>>
           /\ Begin(p, Dispatch(rec))

\* cart page, handleUpdateQuantity: the delta sent for a wanted quantity,
\* Math.max(1, quantity) - (cached quantity || 0)
ClientDeltaAbsolute(quantity, cached) == IF quantity > 1 THEN quantity ELSE 1
ClientDelta(quantity, cached) == (IF quantity > 1 THEN quantity ELSE 1) - cached

\* cart page, handleUpdateQuantity(productId, quantity) on a cart state
\* that fetchCart has just loaded: below 1 it calls handleRemoveItem
\* (DELETE), otherwise it POSTs the delta; the request then arrives at
\* handler()
HandleUpdateQuantity(p) ==
    \E u \in scope.sessions[p], pid \in scope.products[p], quantity \in 0..MaxQty :
       LET cached == QtyOf(carts, items, u, pid)
           req == IF quantity < 1
                  THEN [NoReq EXCEPT !.op = "DELETE", !.user = u,
                                     !.productId = pid,
                                     !.edit = [set |-> TRUE, quantity |-> quantity]]
                  ELSE [NoReq EXCEPT !.op = "POST", !.user = u,
                                     !.productId = pid,
                                     !.delta = ClientDelta(quantity, cached),
                                     !.edit = [set |-> TRUE, quantity |-> quantity]]
       IN  /\ "EDIT" \in scope.ops
           /\ u # NoUser /\ pid \in Products
           \* keeps every line within MaxQty
           /\ req.delta > 0 => cached + Pending(p, u, pid) + req.delta <= MaxQty
           /\ UNCHANGED <<users, carts, items>>
           /\ Begin(p, Dispatch([IdleProc EXCEPT !.req = req]))

\* handleGetCart: cart.findUnique with items, total, 200
GetCart(p) ==
    LET rec == procs[p]
        cart == CartFindUnique(carts, rec.req.user)
        rows == ItemsOf(items, cart.id)
    IN  /\ rec.pc = "get_find"
        /\ UNCHANGED <<users, carts, items>>
        /\ Step(p, IF cart = NoCart
                   THEN Finish(rec, Err(404, "Cart not found"))
                   ELSE Finish(rec, Ok(Lines(rows), TotalOf(rows))))

\* what handleAddToCart awaits next once it holds the cart
AfterCartZeroUpserts(delta) ==
    IF delta >= 0 THEN "add_upsert" ELSE "add_findItem"
AfterCart(delta) ==
    IF delta = 0 THEN "add_reread"
    ELSE IF delta > 0 THEN "add_upsert" ELSE "add_findItem"

\* product.findUnique({ where: { id: productId } }) finds a row
ProductFoundAlways(productId) == TRUE
ProductFound(productId) == productId \in Products

\* handleAddToCart: product.findUnique
AddFindProduct(p) ==
    LET rec == procs[p]
    IN  /\ rec.pc = "add_product"
        /\ UNCHANGED <<users, carts, items>>
        /\ Step(p, IF ProductFound(rec.req.productId)
                   THEN [rec EXCEPT !.pc = "add_findCart"]
                   ELSE Finish(rec, Err(404, "Product not found")))

\* handleAddToCart: cart.findUnique
AddFindCart(p) ==
    LET rec == procs[p]
        cart == CartFindUnique(carts, rec.req.user)
    IN  /\ rec.pc = "add_findCart"
        /\ UNCHANGED <<users, carts, items>>
        /\ Step(p, IF cart = NoCart
                   THEN [rec EXCEPT !.pc = "add_createCart"]
                   ELSE [rec EXCEPT !.pc = AfterCart(rec.req.delta),
                                    !.cart = cart])

\* handleAddToCart: cart.create; a unique violation is thrown and caught
AddCreateCartNoInsert(p) ==
    LET rec == procs[p]
    IN  /\ rec.pc = "add_createCart"
        /\ UNCHANGED <<users, carts, items>>
        /\ Step(p, [rec EXCEPT !.pc = AfterCart(rec.req.delta),
                               !.cart = [id |-> NewCartId(carts, rec.req.user),
                                         userId |-> rec.req.user]])
AddCreateCart(p) ==
    LET rec == procs[p]
        cs == CartCreate(carts, rec.req.user)
    IN  /\ rec.pc = "add_createCart"
        /\ UNCHANGED <<users, items>>
        /\ IF CartUserIdFree(carts, rec.req.user)
           THEN /\ carts' = cs
                /\ Step(p, [rec EXCEPT !.pc = AfterCart(rec.req.delta),
                                       !.cart = CHOOSE c \in cs : c \notin carts])
           ELSE /\ carts' = carts
                /\ Step(p, Finish(rec, Err(500, "Failed to add to cart")))

\* handleAddToCart, quantity > 0: cartItem.upsert
AddUpsertFromStaleRead(p) ==
    LET rec == procs[p]
        stale == {i \in win.items : i.cartId = rec.cart.id
                                    /\ i.productId = rec.req.productId}
        others == {i \in items : ~(i.cartId = rec.cart.id
                                   /\ i.productId = rec.req.productId)}
    IN  /\ rec.pc = "add_upsert"
        /\ UNCHANGED <<users, carts>>
        /\ items' = ItemUpsert(others \cup stale, rec.cart.id,
                               rec.req.productId, rec.req.delta)
        /\ Step(p, [rec EXCEPT !.pc = "add_reread"])
AddUpsert(p) ==
    LET rec == procs[p]
    IN  /\ rec.pc = "add_upsert"
        /\ UNCHANGED <<users, carts>>
        /\ items' = ItemUpsert(items, rec.cart.id, rec.req.productId, rec.req.delta)
        /\ Step(p, [rec EXCEPT !.pc = "add_reread"])

\* existing.quantity + quantity
NewQtyWrongSign(existingQty, delta) == existingQty - delta
NewQty(existingQty, delta) == existingQty + delta
\* newQty > 0: the line is updated, otherwise deleted
KeepsLineAtZero(newQty) == newQty >= 0
KeepsLine(newQty) == newQty > 0

\* !existing
ItemMissingNever(existing) == FALSE
ItemMissing(existing) == existing = NoItem

\* handleAddToCart, quantity < 0: cartItem.findUnique
AddFindItem(p) ==
    LET rec == procs[p]
        existing == ItemFindUnique(items, rec.cart.id, rec.req.productId)
    IN  /\ rec.pc = "add_findItem"
        /\ UNCHANGED <<users, carts, items>>
        /\ Step(p, IF ItemMissing(existing)
                   THEN Finish(rec, Err(400, "Cart item not found"))
                   ELSE [rec EXCEPT !.existing = existing,
                            !.pc = IF KeepsLine(NewQty(existing.quantity, rec.req.delta))
                                   THEN "add_update" ELSE "add_delete"])

\* handleAddToCart: cartItem.update by id; a missing record is thrown
AddUpdateRecreates(p) ==
    LET rec == procs[p]
        slot(i) == i.cartId = rec.existing.cartId /\ i.productId = rec.existing.productId
    IN  /\ rec.pc = "add_update"
        /\ UNCHANGED <<users, carts>>
        /\ items' = {i \in items : ~slot(i)} \cup
                     {[rec.existing EXCEPT !.quantity =
                          NewQty(rec.existing.quantity, rec.req.delta)]}
        /\ Step(p, [rec EXCEPT !.pc = "add_reread", !.existing = NoItem])
AddUpdate(p) ==
    LET rec == procs[p]
    IN  /\ rec.pc = "add_update"
        /\ UNCHANGED <<users, carts>>
        /\ IF \E i \in items : i.id = rec.existing.id
           THEN /\ items' = ItemUpdate(items, rec.existing.id,
                                       NewQty(rec.existing.quantity, rec.req.delta))
                /\ Step(p, [rec EXCEPT !.pc = "add_reread", !.existing = NoItem])
           ELSE /\ items' = items
                /\ Step(p, Finish(rec, Err(500, "Failed to add to cart")))

\* handleAddToCart: cartItem.delete by id; a missing record is thrown
AddDelete(p) ==
    LET rec == procs[p]
    IN  /\ rec.pc = "add_delete"
        /\ UNCHANGED <<users, carts>>
        /\ IF \E i \in items : i.id = rec.existing.id
           THEN /\ items' = ItemDelete(items, rec.existing.id)
                /\ Step(p, [rec EXCEPT !.pc = "add_reread", !.existing = NoItem])
           ELSE /\ items' = items
                /\ Step(p, Finish(rec, Err(500, "Failed to add to cart")))

\* handleAddToCart: re-read of the cart with items, total, 200
AddReread(p) ==
    LET rec == procs[p]
        cart == CartFindUnique(carts, rec.req.user)
        rows == ItemsOf(items, cart.id)
    IN  /\ rec.pc = "add_reread"
        /\ UNCHANGED <<users, carts, items>>
        /\ Step(p, Finish(rec, Ok(Lines(rows), TotalOf(rows))))

\* handleRemoveFromCart: cart.findUnique
RemoveFindCart(p) ==
    LET rec == procs[p]
        cart == CartFindUnique(carts, rec.req.user)
    IN  /\ rec.pc = "rm_findCart"
        /\ UNCHANGED <<users, carts, items>>
        /\ Step(p, IF cart = NoCart
                   THEN Finish(rec, Err(404, "Cart not found"))
                   ELSE [rec EXCEPT !.pc = "rm_delete", !.cart = cart])

\* handleRemoveFromCart: cartItem.delete by (cartId, productId); a missing
\* record is thrown and caught
RemoveDelete(p) ==
    LET rec == procs[p]
        row == ItemFindUnique(items, rec.cart.id, rec.req.productId)
    IN  /\ rec.pc = "rm_delete"
        /\ UNCHANGED <<users, carts>>
        /\ IF row # NoItem
           THEN /\ items' = ItemDelete(items, row.id)
                /\ Step(p, [rec EXCEPT !.pc = "rm_reread"])
           ELSE /\ items' = items
                /\ Step(p, Finish(rec, Err(500, "Failed to remove from cart")))

\* handleRemoveFromCart: re-read of the cart with items, total, 200
RemoveReread(p) ==
    LET rec == procs[p]
        cart == CartFindUnique(carts, rec.req.user)
        rows == ItemsOf(items, cart.id)
    IN  /\ rec.pc = "rm_reread"
        /\ UNCHANGED <<users, carts, items>>
        /\ Step(p, Finish(rec, Ok(Lines(rows), TotalOf(rows))))

\* ---------------------------------------------------------------- /api/orders
\* !cart || cart.items.length === 0
CartIsEmptyOnlyMissing(cart, rows) == cart = NoCart
CartIsEmpty(cart, rows) == cart = NoCart \/ rows = {}

\* handler(): method check, then session check
OrdersHandler(p) ==
    \E op \in scope.ops \cap {"CHECKOUT", "ORDERS_GET"}, u \in scope.sessions[p] :
       LET rec == [IdleProc EXCEPT !.req = [NoReq EXCEPT !.op = op, !.user = u]]
       IN  /\ UNCHANGED <<users, carts, items>>
           /\ Begin(p,
                IF op # "CHECKOUT"
                THEN Finish(rec, Err(405, "Method not allowed"))
                ELSE IF ~HasSession(u)
                THEN Finish(rec, Err(401, "Unauthorized"))
                ELSE [rec EXCEPT !.pc = "co_find"])

\* handler(): cart.findUnique with items, emptiness check, total
CheckoutFind(p) ==
    LET rec == procs[p]
        cart == CartFindUnique(carts, rec.req.user)
        rows == ItemsOf(items, cart.id)
    IN  /\ rec.pc = "co_find"
        /\ UNCHANGED <<users, carts, items>>
        /\ Step(p, IF CartIsEmpty(cart, rows)
                   THEN Finish(rec, Err(400, "Cart is empty"))
                   ELSE [rec EXCEPT !.pc = "co_deleteMany", !.cart = cart,
                                    !.total = ReduceTotal(rows)])

\* handler(): cartItem.deleteMany, 200 with the total computed before it;
\* deleted records the rows this call removed
CheckoutDeleteMany(p) ==
    LET rec == procs[p]
    IN  /\ rec.pc = "co_deleteMany"
        /\ UNCHANGED <<users, carts>>
        /\ items' = ItemDeleteMany(items, rec.cart.id)
        /\ Step(p, Finish([rec EXCEPT !.deleted = items \ items'],
                          Ok({}, ToFixed2(rec.total))))

\* ---------------------------------------------------------------- authorize
\* authorize(credentials): null when email or password is missing
Authorize(p) ==
    \E e \in scope.emails, pw \in BOOLEAN :
       LET rec == [IdleProc EXCEPT !.req = [NoReq EXCEPT !.op = "AUTH",
                                            !.email = e, !.password = pw]]
       IN  /\ "AUTH" \in scope.ops
           /\ (~pw) => e = SeedUser.email
           /\ UNCHANGED <<users, carts, items>>
           /\ Begin(p, IF e = "" \/ ~pw
                       THEN Finish(rec, Err(401, "CredentialsSignin"))
                       ELSE [rec EXCEPT !.pc = "auth_find"])

\* authorize: user.findUnique by email
AuthFindUser(p) ==
    LET rec == procs[p]
        user == UserFindUnique(users, rec.req.email)
    IN  /\ rec.pc = "auth_find"
        /\ UNCHANGED <<users, carts, items>>
        /\ Step(p, IF user = NoUserRow
                   THEN [rec EXCEPT !.pc = "auth_create"]
                   ELSE Finish(rec, [NoRes EXCEPT !.status = 200, !.id = user.id]))

\* authorize: user.create with a nested cart (one transaction); a unique
\* violation on the email is thrown, caught, and null is returned
AuthCreateUser(p) ==
    LET rec == procs[p]
        uid == NewUserId(users)
    IN  /\ rec.pc = "auth_create"
        /\ UNCHANGED items
        /\ IF UserEmailFree(users, rec.req.email)
           THEN /\ users' = users \cup {[id |-> uid, email |-> rec.req.email]}
                /\ carts' = CartCreate(carts, uid)
                /\ Step(p, Finish(rec, [NoRes EXCEPT !.status = 200, !.id = uid]))
           ELSE /\ UNCHANGED <<users, carts>>
                /\ Step(p, Finish(rec, Err(401, "CredentialsSignin")))

\* ---------------------------------------------------------------- store failure
\* the positions at which handleAddToCart and handleRemoveFromCart await
\* a store call
AddAwaits == {"add_product", "add_findCart", "add_createCart", "add_upsert",
              "add_findItem", "add_update", "add_delete", "add_reread"}
RemoveAwaits == {"rm_findCart", "rm_delete", "rm_reread"}

\* the awaited store call is thrown by the store (connection lost, timeout)
\* and has no effect; the handler's catch block answers 500
StoreFails(p) ==
    LET rec == procs[p]
    IN  /\ p \in scope.faults
        /\ rec.pc \in AddAwaits \cup RemoveAwaits
        /\ UNCHANGED <<users, carts, items>>
        /\ Step(p, [Finish(rec, Err(500, IF rec.pc \in AddAwaits
                                         THEN "Failed to add to cart"
                                         ELSE "Failed to remove from cart"))
                      EXCEPT !.fault = TRUE])

\* ---------------------------------------------------------------- home listing
\* const PRODUCTS_PER_PAGE = 12
PRODUCTS_PER_PAGE == 12

\* Product rows as the listing sees them: creation time, and whether name
\* or description contains the search term. Catalog(n, tie, miss) holds n
\* products created one after the other (id i at time i); tie > 0 gives
\* products tie and tie + 1 the same creation time; miss > 0 makes
\* product miss one that the term does not match.
Catalog(n, tie, miss) ==
    {[id |-> i,
      createdAt |-> IF tie > 0 /\ i = tie + 1 THEN tie ELSE i,
      hit |-> i # miss] : i \in 1..n}
Catalogs ==
    {Catalog(n, tie, miss) : n \in 0..MaxProducts, tie \in 0..MaxProducts,
                             miss \in {0, 1, MaxProducts}}

\* the search terms of a run: none, or one term
Term == "cable"
Terms == {"", Term}

\* the page query parameter: absent, or a string (a sequence of characters)
NoParam == [given |-> FALSE, text |-> <<>>]
Param(text) == [given |-> TRUE, text |-> text]
PageParams ==
    {NoParam, Param(<<>>), Param(<<"0">>), Param(<<"1">>), Param(<<"2">>),
     Param(<<"3">>), Param(<<"-", "1">>), Param(<<"x">>), Param(<<"2", "x">>),
     Param(<<"x", "2">>), Param(<<"0", "2">>)}

\* parseInt: an optional sign, then decimal digits up to the first other
\* character; NaN when there is no digit
NaN == [nan |-> TRUE, value |-> 0]
Num(v) == [nan |-> FALSE, value |-> v]
IsDigit(c) == c \in {"0", "1", "2", "3"}
DigitValue(c) == CASE c = "0" -> 0 [] c = "1" -> 1 [] c = "2" -> 2 [] c = "3" -> 3
RECURSIVE ParseDigits(_, _)
ParseDigits(text, acc) ==
    IF text = <<>> \/ ~IsDigit(Head(text)) THEN acc
    ELSE ParseDigits(Tail(text), acc * 10 + DigitValue(Head(text)))
ParseInt(text) ==
    LET neg == text # <<>> /\ Head(text) = "-"
        rest == IF neg THEN Tail(text) ELSE text
    IN  IF rest = <<>> \/ ~IsDigit(Head(rest)) THEN NaN
        ELSE Num((IF neg THEN 0 - 1 ELSE 1) * ParseDigits(rest, 0))

\* const { q, page = "1" } = context.query
\* Math.max(1, parseInt(page) || 1)
CurrentPage(param) ==
    LET page == IF param.given THEN param.text ELSE <<"1">>
        parsed == ParseInt(page)
        orOne == IF parsed.nan \/ parsed.value = 0 THEN 1 ELSE parsed.value
    IN  IF orOne > 1 THEN orOne ELSE 1

\* the where clause: no term matches every product
Where(catalog, q) == {r \in catalog : q = "" \/ r.hit}

\* the matching rows, newest first, ties by id
RECURSIVE NewestFirst(_)
NewestFirst(rows) ==
    IF rows = {} THEN <<>>
    ELSE LET r == CHOOSE x \in rows : \A y \in rows :
                      \/ y.createdAt < x.createdAt
                      \/ y.createdAt = x.createdAt /\ y.id <= x.id
         IN  <<r>> \o NewestFirst(rows \ {r})
Swap(order, k) ==
    [i \in DOMAIN order |-> IF i = k THEN order[k + 1]
                            ELSE IF i = k + 1 THEN order[k] ELSE order[i]]
\* orderBy: { createdAt: "desc" }: the orders the store may return; rows
\* of equal creation time come in either order
OrderByCreatedAtDesc(rows) ==
    LET order == NewestFirst(rows)
    IN  {order} \cup {Swap(order, k) : k \in {j \in 1..(Len(order) - 1) :
                          order[j].createdAt = order[j + 1].createdAt}}

\* findMany({ where, skip, take, orderBy }) on one returned order
FindMany(order, skip, take) ==
    LET last == IF skip + take < Len(order) THEN skip + take ELSE Len(order)
    IN  [i \in 1..(IF last > skip THEN last - skip ELSE 0) |-> order[skip + i].id]

\* Math.ceil(totalCount / PRODUCTS_PER_PAGE)
TotalPages(totalCount) == (totalCount + PRODUCTS_PER_PAGE - 1) \div PRODUCTS_PER_PAGE

\* the listing outside a home run, and the props of a page not yet asked
NoHome == [catalog |-> {}, q |-> "", param |-> NoParam, products |-> <<>>,
           totalCount |-> 0, currentPage |-> 0, totalPages |-> 0,
           served |-> <<>>]
NotServed == [done |-> FALSE, products |-> <<>>]

\* getServerSideProps of the home page
GetServerSideProps ==
    \E param \in PageParams :
       LET currentPage == CurrentPage(param)
           skip == (currentPage - 1) * PRODUCTS_PER_PAGE
           where == Where(home.catalog, home.q)
           totalCount == Cardinality(where)
       IN  \E order \in OrderByCreatedAtDesc(where) :
              LET products == FindMany(order, skip, PRODUCTS_PER_PAGE)
              IN  /\ home' = [home EXCEPT
                        !.param = param, !.products = products,
                        !.totalCount = totalCount,
                        !.currentPage = currentPage,
                        !.totalPages = TotalPages(totalCount),
                        !.served = [k \in DOMAIN home.served |->
                                      IF k = currentPage
                                      THEN [done |-> TRUE, products |-> products]
                                      ELSE home.served[k]]]
                  /\ UNCHANGED <<users, carts, items, procs, win, scope>>

\* a catalog and a search term; no page served yet
InitHome ==
    /\ users = {SeedUser, OAuthUser}
    /\ carts = {[id |-> <<SeedUser.id, 0>>, userId |-> SeedUser.id]}
    /\ items = {}
    /\ procs = [p \in Procs |-> IdleProc]
    /\ win = [users |-> users, carts |-> carts, items |-> items,
              owner |-> "none", nstart |-> 0, prev |-> NoPrev]
    /\ scope \in {sc \in Scopes : sc.name = "lines"}
    /\ \E catalog \in Catalogs, q \in Terms :
          home = [NoHome EXCEPT
                    !.catalog = catalog, !.q = q,
                    !.served = [k \in 1..TotalPages(Cardinality(Where(catalog, q)))
                                  |-> NotServed]]

NextHome == GetServerSideProps

SpecHome == InitHome /\ [][NextHome]_vars

\* ---------------------------------------------------------------- system
\* the seeded store: the products, the test user with its cart, and a user
\* the OAuth adapter created (a User row without a Cart row)
Init ==
    /\ users = {SeedUser, OAuthUser}
    /\ carts = {[id |-> <<SeedUser.id, 0>>, userId |-> SeedUser.id]}
    /\ items = {}
    /\ procs = [p \in Procs |-> IdleProc]
    /\ win = [users |-> users, carts |-> carts, items |-> items,
              owner |-> "none", nstart |-> 0, prev |-> NoPrev]
    /\ scope \in Scopes
    /\ home = NoHome

Next ==
    \E p \in Procs :
        \/ CartHandler(p)
        \/ HandleUpdateQuantity(p)
        \/ GetCart(p)
        \/ AddFindProduct(p)
        \/ AddFindCart(p)
        \/ AddCreateCart(p)
        \/ AddUpsert(p)
        \/ AddFindItem(p)
        \/ AddUpdate(p)
        \/ AddDelete(p)
        \/ AddReread(p)
        \/ RemoveFindCart(p)
        \/ RemoveDelete(p)
        \/ RemoveReread(p)
        \/ OrdersHandler(p)
        \/ CheckoutFind(p)
        \/ CheckoutDeleteMany(p)
        \/ Authorize(p)
        \/ AuthFindUser(p)
        \/ AuthCreateUser(p)
        \/ StoreFails(p)

Spec == Init /\ [][Next]_vars

\* ---------------------------------------------------------------- typing
TypeOK ==
    /\ \A i \in items : i.quantity \in Int /\ i.productId \in Products
    /\ \A c \in carts : \E u \in users : u.id = c.userId
    /\ \A p \in Procs : procs[p].res.status \in {0, 200, 400, 401, 404, 405, 500}

\* ---------------------------------------------------------------- readings
\* handler p has answered
Done(p) == procs[p].pc = "done"
\* handler p has answered a request that ran with no other request
\* interleaved, and nothing has run since: win is the store it started from
Solo(p) == win.nstart = 1 /\ win.owner = p /\ Done(p)
\* two requests ran concurrently from the store in win; both have answered
\* and nothing else has run
Pair == win.nstart = 2 /\ \A p \in Procs : Done(p)
\* a POST /api/cart that passed validation and named a stored product
IsAdjust(p) == procs[p].req.op = "POST" /\ procs[p].req.productId \in Products
Succeeded(p) == procs[p].res.status = 200
\* every store call of handler p's request was served
NoFault(p) == ~procs[p].fault
\* the store is as it was at the start of the window
StoreUntouched == users = win.users /\ carts = win.carts /\ items = win.items

\* quantity of a line now and at the start of the window (0 when absent)
CurQty(userId, productId) == QtyOf(carts, items, userId, productId)
BaseQty(userId, productId) == QtyOf(win.carts, win.items, userId, productId)
\* the lines of a user's cart now and at the start of the window
CurLines(userId) == Lines(ItemsOf(items, CartFindUnique(carts, userId).id))
BaseLines(userId) ==
    Lines(ItemsOf(win.items, CartFindUnique(win.carts, userId).id))
HasCart(cs, userId) == \E c \in cs : c.userId = userId

\* the CartItem rows other than the line (userId, productId), and the Cart
\* rows of other users
RowsBeside(cs, its, userId, productId) ==
    {i \in its : ~(/\ i.cartId = CartFindUnique(cs, userId).id
                    /\ i.productId = productId)}
CartsBeside(cs, userId) == {c \in cs : c.userId # userId}
\* a CartItem row is stored for the line (userId, productId)
LinePresent(cs, its, userId, productId) ==
    RowsBeside(cs, its, userId, productId) # its
\* the line and cart rows a request of handler p on its line must leave alone
FrameKept(p) ==
    LET u == procs[p].req.user
        pid == procs[p].req.productId
    IN  /\ RowsBeside(carts, items, u, pid) = RowsBeside(win.carts, win.items, u, pid)
        /\ CartsBeside(carts, u) = CartsBeside(win.carts, u)

\* the Cart row of a user and the CartItem rows that hang on it
RowsOfUser(cs, its, userId) ==
    <<{c \in cs : c.userId = userId},
      {i \in its : \E c \in cs : c.userId = userId /\ c.id = i.cartId}>>

\* sum of price x quantity over a set of lines, in cents
RECURSIVE SumCents(_)
SumCents(lines) ==
    IF lines = {} THEN 0
    ELSE LET l == CHOOSE x \in lines : TRUE
         IN  Price[l.productId] * l.quantity + SumCents(lines \ {l})

\* ---------------------------------------------------------------- total over any rows
\* The total computation applied to rows the handlers themselves never
\* store: the seeded user's cart starts with lines of any quantity from
\* -MaxQty to MaxQty (written by something other than the handlers), and
\* one handler serves the user's cart and checkout requests.
TotalScope ==
    [name |-> "total", sessions |-> [a |-> {SeedUser.id}, b |-> {}],
     products |-> Everyone(Products), ops |-> CartOps, emails |-> {},
     faults |-> {}]
AnyQuantity == ((0 - MaxQty)..MaxQty) \ {0}
InitTotal ==
    /\ users = {SeedUser, OAuthUser}
    /\ carts = {[id |-> <<SeedUser.id, 0>>, userId |-> SeedUser.id]}
    /\ \E held \in (SUBSET Products) \ {{}} :
       \E qty \in [held -> AnyQuantity] :
          items = {[id |-> <<<<SeedUser.id, 0>>, pid, 0>>,
                    cartId |-> <<SeedUser.id, 0>>,
                    productId |-> pid, quantity |-> qty[pid]] : pid \in held}
    /\ procs = [p \in Procs |-> IdleProc]
    /\ win = [users |-> users, carts |-> carts, items |-> items,
              owner |-> "none", nstart |-> 0, prev |-> NoPrev]
    /\ scope = TotalScope
    /\ home = NoHome

NextTotal ==
    \E p \in Procs :
        \/ CartHandler(p)
        \/ GetCart(p)
        \/ AddFindProduct(p)
        \/ AddFindCart(p)
        \/ AddUpsert(p)
        \/ AddFindItem(p)
        \/ AddUpdate(p)
        \/ AddDelete(p)
        \/ AddReread(p)
        \/ RemoveFindCart(p)
        \/ RemoveDelete(p)
        \/ RemoveReread(p)
        \/ OrdersHandler(p)
        \/ CheckoutFind(p)
        \/ CheckoutDeleteMany(p)

SpecTotal == InitTotal /\ [][NextTotal]_vars

\* ---------------------------------------------------------------- claims

\* C1 Uniqueness: in every reachable state each cart holds at most one
\* CartItem row per product.
C1_UniqueLinePerProduct ==
    \A i, j \in items :
        (i.cartId = j.cartId /\ i.productId = j.productId) => i = j

\* C1 witness: two concurrent positive adds to the same absent line have
\* both succeeded and the line holds both.
C1_Witness ==
    /\ Pair
    /\ \A p \in Procs : IsAdjust(p) /\ procs[p].req.delta > 0 /\ Succeeded(p)
    /\ \E u \in Sessions, pid \in Products :
          /\ \A p \in Procs : procs[p].req.user = u /\ procs[p].req.productId = pid
          /\ BaseQty(u, pid) = 0
          /\ CurQty(u, pid) = procs["a"].req.delta + procs["b"].req.delta

\* C2 Non-negativity: every stored CartItem has quantity >= 1, and an
\* adjust whose result would be <= 0 leaves the line deleted.
C2_QuantityAtLeastOne ==
    /\ \A i \in items : i.quantity >= 1
    /\ \A p \in Procs :
          (/\ Solo(p) /\ IsAdjust(p) /\ Succeeded(p)
           /\ procs[p].req.delta < 0
           /\ BaseQty(procs[p].req.user, procs[p].req.productId)
                 + procs[p].req.delta <= 0)
          => ~\E l \in CurLines(procs[p].req.user) :
                 l.productId = procs[p].req.productId

\* C2 witness: a decrement that exactly exhausts a line has succeeded.
C2_Witness ==
    \E p \in Procs :
        /\ Solo(p) /\ IsAdjust(p) /\ Succeeded(p)
        /\ procs[p].req.delta < 0
        /\ BaseQty(procs[p].req.user, procs[p].req.productId)
              + procs[p].req.delta = 0

\* the line (u, pid) holds quantity e when e > 0 and is absent otherwise
LineReflects(u, pid, e) ==
    IF e > 0
    THEN \E l \in CurLines(u) : l.productId = pid /\ l.quantity = e
    ELSE ~\E l \in CurLines(u) : l.productId = pid

\* C3 No lost update: two concurrent adjusts of the same line that both
\* succeed leave quantity q + d1 + d2, or no line when that is <= 0.
\* Stated where neither delta alone takes the line below zero, so that
\* q + d1 + d2 is what either serial order of the two leaves.
C3_NoLostUpdate ==
    \A u \in Sessions, pid \in Products :
        (/\ Pair
         /\ \A p \in Procs :
               /\ IsAdjust(p) /\ Succeeded(p)
               /\ procs[p].req.user = u /\ procs[p].req.productId = pid
               /\ procs[p].req.delta # 0
               /\ BaseQty(u, pid) + procs[p].req.delta >= 0)
        => LineReflects(u, pid,
              BaseQty(u, pid) + procs["a"].req.delta + procs["b"].req.delta)

\* C4 Checkout atomicity: the total of a successful checkout is the sum
\* over exactly the rows its deleteMany removed.
C4_CheckoutAtomic ==
    \A p \in Procs :
        (Done(p) /\ procs[p].req.op = "CHECKOUT" /\ Succeeded(p))
        => procs[p].res.total = SumCents(Lines(procs[p].deleted))

\* C5 At most one Cart per user id in every reachable state.
C5_OneCartPerUser ==
    \A c, d \in carts : c.userId = d.userId => c = d

\* C5 witness: two concurrent first-use adds by a user that had no cart
\* have both answered and the user has a cart.
C5_Witness ==
    /\ Pair
    /\ \E u \in Sessions :
          /\ ~HasCart(win.carts, u)
          /\ HasCart(carts, u)
          /\ \A p \in Procs : IsAdjust(p) /\ procs[p].req.user = u

\* C6 Idempotent first use: two concurrent positive adds by a user
\* without a cart both succeed and both deltas reach the one cart.
C6_FirstUseBothSucceed ==
    \A u \in Sessions, pid \in Products :
        (/\ Pair
         /\ ~HasCart(win.carts, u)
         /\ \A p \in Procs :
               /\ IsAdjust(p) /\ procs[p].req.delta > 0
               /\ procs[p].req.user = u /\ procs[p].req.productId = pid)
        => /\ \A p \in Procs : Succeeded(p)
           /\ LineReflects(u, pid, procs["a"].req.delta + procs["b"].req.delta)

\* C7 Checkout clears state: a checkout run alone on a cart with lines
\* succeeds, returns the total of the lines present before the clear and
\* leaves no line; a get-cart that follows returns no lines.
C7_CheckoutClears ==
    \A p \in Procs :
        /\ (/\ Solo(p) /\ procs[p].req.op = "CHECKOUT"
            /\ BaseLines(procs[p].req.user) # {})
           => /\ Succeeded(p)
              /\ procs[p].res.total = SumCents(BaseLines(procs[p].req.user))
              /\ CurLines(procs[p].req.user) = {}
        /\ (/\ Solo(p) /\ procs[p].req.op = "GET"
            /\ win.prev = [op |-> "CHECKOUT", user |-> procs[p].req.user,
                           status |-> 200])
           => /\ Succeeded(p)
              /\ procs[p].res.lines = {}

\* C7 witness: a get-cart has answered right after a successful checkout.
C7_Witness ==
    \E p \in Procs :
        /\ Solo(p) /\ procs[p].req.op = "GET"
        /\ win.prev = [op |-> "CHECKOUT", user |-> procs[p].req.user,
                       status |-> 200]

\* C8 Checkout of an empty cart (no lines, or no Cart row) answers
\* 400 'Cart is empty' and changes no row.
C8_EmptyCartRejected ==
    \A p \in Procs :
        (/\ Solo(p) /\ procs[p].req.op = "CHECKOUT"
         /\ procs[p].req.user # NoUser
         /\ BaseLines(procs[p].req.user) = {})
        => /\ procs[p].res.status = 400
           /\ procs[p].res.error = "Cart is empty"
           /\ users = win.users /\ carts = win.carts /\ items = win.items

\* C8 witness: a checkout of a cart row without lines has answered.
C8_Witness ==
    \E p \in Procs :
        /\ Solo(p) /\ procs[p].req.op = "CHECKOUT"
        /\ HasCart(win.carts, procs[p].req.user)
        /\ BaseLines(procs[p].req.user) = {}

\* C9 Absence always triggers creation: for a signed-in user without a
\* Cart row, get, adjust and remove never answer cart-not-found; the cart
\* is created, and get-cart returns no lines and total 0.
C9_AbsenceCreates ==
    \A p \in Procs :
        /\ (Done(p) /\ procs[p].req.op \in {"GET", "POST", "DELETE"})
           => procs[p].res.error # "Cart not found"
        /\ (/\ Solo(p) /\ procs[p].req.op = "GET"
            /\ procs[p].req.user # NoUser
            /\ ~HasCart(win.carts, procs[p].req.user))
           => /\ HasCart(carts, procs[p].req.user)
              /\ Succeeded(p)
              /\ procs[p].res.lines = {} /\ procs[p].res.total = 0

\* C10 Total correctness: every successful get, adjust and remove response
\* carries total = sum of price x quantity over its lines, 0 for no lines,
\* never negative.
C10_TotalCorrect ==
    \A p \in Procs :
        (Done(p) /\ Succeeded(p) /\ procs[p].req.op \in {"GET", "POST", "DELETE"})
        => /\ procs[p].res.total = SumCents(procs[p].res.lines)
           /\ (procs[p].res.lines = {} => procs[p].res.total = 0)
           /\ procs[p].res.total >= 0

\* C10 witness: a response carries two lines, one of them with quantity
\* above one.
C10_Witness ==
    \E p \in Procs :
        /\ Done(p) /\ Succeeded(p) /\ procs[p].req.op \in {"GET", "POST", "DELETE"}
        /\ Cardinality(procs[p].res.lines) = 2
        /\ \E l \in procs[p].res.lines : l.quantity > 1

\* C11: an add/adjust with a positive delta d for a stored product, run
\* with no other request interleaved, succeeds and leaves the line at the
\* quantity it had before plus d (d when there was no line); every other
\* line of the cart and every other cart is as before.
C11_PositiveDelta ==
    \A p \in Procs :
        (Solo(p) /\ IsAdjust(p) /\ NoFault(p) /\ procs[p].req.delta > 0) =>
            LET u == procs[p].req.user
                pid == procs[p].req.productId
            IN  /\ Succeeded(p)
                /\ CurQty(u, pid) = BaseQty(u, pid) + procs[p].req.delta
                /\ Cardinality({i \in items : i \notin RowsBeside(carts, items, u, pid)}) = 1
                /\ FrameKept(p)

\* a positive delta was added to a line that was there, next to another line
C11_Witness ==
    \E p \in Procs :
        LET u == procs[p].req.user
            pid == procs[p].req.productId
        IN  /\ Solo(p) /\ IsAdjust(p) /\ Succeeded(p)
            /\ procs[p].req.delta > 0
            /\ BaseQty(u, pid) > 0
            /\ CurQty(u, pid) = BaseQty(u, pid) + procs[p].req.delta
            /\ \E other \in Products \ {pid} : BaseQty(u, other) > 0

\* C12: an add/adjust with a negative delta d on a line of quantity q, run
\* with no other request interleaved, succeeds; it leaves the line at
\* q + d when q + d > 0 and deletes the line when q + d <= 0; every other
\* line is as before.
C12_NegativeDelta ==
    \A p \in Procs :
        LET u == procs[p].req.user
            pid == procs[p].req.productId
            q == BaseQty(u, pid)
            d == procs[p].req.delta
        IN  (Solo(p) /\ IsAdjust(p) /\ NoFault(p) /\ d < 0 /\ q > 0) =>
                /\ Succeeded(p)
                /\ LinePresent(carts, items, u, pid) <=> q + d > 0
                /\ q + d > 0 => CurQty(u, pid) = q + d
                /\ FrameKept(p)

\* a decrement left a smaller positive quantity on a line, next to another line
C12_Witness ==
    \E p \in Procs :
        LET u == procs[p].req.user
            pid == procs[p].req.productId
        IN  /\ Solo(p) /\ IsAdjust(p) /\ Succeeded(p)
            /\ procs[p].req.delta < 0
            /\ BaseQty(u, pid) + procs[p].req.delta > 0
            /\ CurQty(u, pid) = BaseQty(u, pid) + procs[p].req.delta
            /\ \E other \in Products \ {pid} : CurQty(u, other) > 0

\* C13: an add/adjust with a negative delta for a stored product that has
\* no line in the caller's cart, run with no other request interleaved, is
\* answered 400 'Cart item not found' and leaves the CartItem rows as they
\* were.
C13_NegativeDeltaAbsentLine ==
    \A p \in Procs :
        LET u == procs[p].req.user
            pid == procs[p].req.productId
        IN  (/\ Solo(p) /\ IsAdjust(p) /\ NoFault(p)
             /\ procs[p].req.delta < 0
             /\ ~LinePresent(win.carts, win.items, u, pid)) =>
                /\ procs[p].res = Err(400, "Cart item not found")
                /\ items = win.items

\* a decrement of a product without a line was refused in a cart that
\* holds another line
C13_Witness ==
    \E p \in Procs :
        LET u == procs[p].req.user
            pid == procs[p].req.productId
        IN  /\ Solo(p) /\ IsAdjust(p)
            /\ procs[p].req.delta < 0
            /\ ~LinePresent(win.carts, win.items, u, pid)
            /\ procs[p].res.status = 400
            /\ CurLines(u) # {}

\* C14: a remove-line request for a stored product that has no line in the
\* caller's cart, run with no other request interleaved and with every
\* store call served, is answered with a client error (4xx) that differs
\* from the answer given when the store fails, and leaves the CartItem
\* rows as they were.
C14_RemoveAbsentLine ==
    \A p \in Procs :
        LET u == procs[p].req.user
            pid == procs[p].req.productId
        IN  (/\ Solo(p) /\ procs[p].req.op = "DELETE" /\ NoFault(p)
             /\ pid \in Products
             /\ ~LinePresent(win.carts, win.items, u, pid)) =>
                /\ procs[p].res.status \in 400..499
                /\ procs[p].res # Err(500, "Failed to remove from cart")
                /\ items = win.items

\* C15: a remove-line request for a product that has a line in the
\* caller's cart, run with no other request interleaved, deletes that line
\* whatever its quantity, leaves every other line as it was, and returns
\* the lines read afterwards (without that product) with their total.
C15_RemovePresentLine ==
    \A p \in Procs :
        LET u == procs[p].req.user
            pid == procs[p].req.productId
        IN  (/\ Solo(p) /\ procs[p].req.op = "DELETE" /\ NoFault(p)
             /\ LinePresent(win.carts, win.items, u, pid)) =>
                /\ Succeeded(p)
                /\ ~LinePresent(carts, items, u, pid)
                /\ FrameKept(p)
                /\ procs[p].res.lines = CurLines(u)
                /\ \A l \in procs[p].res.lines : l.productId # pid
                /\ procs[p].res.total = SumCents(procs[p].res.lines)

\* a line of quantity above one was removed and another line stayed
C15_Witness ==
    \E p \in Procs :
        LET u == procs[p].req.user
            pid == procs[p].req.productId
        IN  /\ Solo(p) /\ procs[p].req.op = "DELETE" /\ Succeeded(p)
            /\ BaseQty(u, pid) > 1
            /\ ~LinePresent(carts, items, u, pid)
            /\ procs[p].res.lines # {}
            /\ procs[p].res.total > 0

\* C16: an add/adjust whose productId names no Product row never gets
\* past the product lookup, whatever its delta: it is answered 404
\* 'Product not found', and when it ran with no other request interleaved
\* the Cart and CartItem rows are as they were.
C16_ProductNotFound ==
    \A p \in Procs :
        (/\ procs[p].req.op = "POST"
         /\ procs[p].req.user # NoUser
         /\ procs[p].req.productId \notin Products \cup {BadProductId}) =>
            /\ procs[p].pc \in {"add_product", "done"}
            /\ Done(p) /\ NoFault(p) => procs[p].res = Err(404, "Product not found")
            /\ Solo(p) => carts = win.carts /\ items = win.items

\* a decrement of an unknown product by a user without a cart was answered
\* 404 and no cart was created
C16_Witness ==
    \E p \in Procs :
        /\ Solo(p) /\ procs[p].req.op = "POST"
        /\ procs[p].req.productId = MissingProduct
        /\ procs[p].req.delta < 0
        /\ procs[p].res.status = 404
        /\ ~HasCart(carts, procs[p].req.user)

\* C17: an add/adjust with delta 0 for a stored product, run with no other
\* request interleaved, succeeds, creates, changes and deletes no CartItem
\* row, and returns the cart's current lines with their total.
C17_ZeroDelta ==
    \A p \in Procs :
        (Solo(p) /\ IsAdjust(p) /\ NoFault(p) /\ procs[p].req.delta = 0) =>
            /\ Succeeded(p)
            /\ items = win.items
            /\ procs[p].res.lines = BaseLines(procs[p].req.user)
            /\ procs[p].res.total = SumCents(procs[p].res.lines)

\* a zero delta on a cart that holds a line returned that line
C17_Witness ==
    \E p \in Procs :
        /\ Solo(p) /\ IsAdjust(p) /\ Succeeded(p)
        /\ procs[p].req.delta = 0
        /\ BaseQty(procs[p].req.user, procs[p].req.productId) > 0
        /\ procs[p].res.lines = CurLines(procs[p].req.user)
        /\ items = win.items

\* C18: whenever an add/adjust or remove-line request that ran with no
\* other request interleaved is answered with an error (validation,
\* product or line not found, or a store call that failed at any step,
\* the final re-read included), the CartItem rows are as they were before
\* the request.
C18_NoPartialMutation ==
    \A p \in Procs :
        (/\ Solo(p) /\ procs[p].req.op \in {"POST", "DELETE"}
         /\ procs[p].req.user # NoUser
         /\ ~Succeeded(p)) =>
            items = win.items

\* C19: a step of a get-cart, add/adjust, remove-line or checkout request
\* made as one user never creates, changes or deletes the Cart row or a
\* CartItem row of another user, whatever is interleaved with it.
C19_UserIndependence ==
    [][\A p \in Procs :
          (/\ InFlight(p) /\ procs'[p] # procs[p]
           /\ procs[p].req.op \in CartOps) =>
              \A u \in {x.id : x \in users} \ {procs[p].req.user} :
                  RowsOfUser(carts', items', u) = RowsOfUser(carts, items, u)]_vars

\* two users' add/adjust requests ran interleaved and each cart holds
\* exactly what its owner added
C19_Witness ==
    /\ Pair
    /\ procs["a"].req.user # procs["b"].req.user
    /\ \A p \in Procs :
          /\ IsAdjust(p) /\ Succeeded(p) /\ procs[p].req.delta > 0
          /\ CurQty(procs[p].req.user, procs[p].req.productId) =
                BaseQty(procs[p].req.user, procs[p].req.productId) + procs[p].req.delta

\* C20: a GET, POST or DELETE on /api/cart or a checkout that carries no
\* session user never reaches a store call: it is answered 401
\* 'Unauthorized' with nothing read from the store in the answer, and when
\* it ran with no other request interleaved the User, Cart and CartItem
\* rows are as they were (Product rows are never written).
C20_Unauthenticated ==
    \A p \in Procs :
        (procs[p].req.op \in CartOps /\ procs[p].req.user = NoUser) =>
            /\ ~InFlight(p)
            /\ Done(p) => procs[p].res = Err(401, "Unauthorized")
            /\ Solo(p) => StoreUntouched

\* a checkout without a session was refused while a cart held a line, and
\* the line is still there
C20_Witness ==
    \E p \in Procs :
        /\ Solo(p) /\ procs[p].req.op = "CHECKOUT"
        /\ procs[p].req.user = NoUser
        /\ procs[p].res.status = 401
        /\ items # {} /\ items = win.items

\* C21: a POST /api/cart whose body does not fit the schema, or a DELETE
\* /api/cart whose body has no string productId, made with a session,
\* never reaches a store call: it is answered 400 'Validation failed', and
\* when it ran with no other request interleaved the Cart and CartItem
\* rows are as they were.
C21_RequestValidation ==
    \A p \in Procs :
        (/\ procs[p].req.op \in {"POST", "DELETE"}
         /\ procs[p].req.user # NoUser
         /\ procs[p].req.productId = BadProductId) =>
            /\ ~InFlight(p)
            /\ Done(p) => procs[p].res = Err(400, "Validation failed")
            /\ Solo(p) => carts = win.carts /\ items = win.items

\* a DELETE without a productId was refused for a user without a cart,
\* right after a POST with a malformed body was refused
C21_Witness ==
    \E p \in Procs :
        /\ Solo(p) /\ procs[p].req.op = "DELETE"
        /\ procs[p].req.user # NoUser
        /\ procs[p].req.productId = BadProductId
        /\ procs[p].res.status = 400
        /\ win.prev.op = "POST" /\ win.prev.status = 400
        /\ ~HasCart(carts, procs[p].req.user)

Matching == Where(home.catalog, home.q)
TimesServed(id) ==
    Cardinality({ki \in {<<k, i>> : k \in DOMAIN home.served, i \in 1..PRODUCTS_PER_PAGE} :
                   /\ ki[2] \in DOMAIN home.served[ki[1]].products
                   /\ home.served[ki[1]].products[ki[2]] = id})
\* a page parameter that is absent, has no leading number, or is below 1
ServesFirstPage(param) ==
    \/ ~param.given
    \/ param.text = <<>>
    \/ ~IsDigit(Head(param.text))
    \/ \A i \in DOMAIN param.text : param.text[i] = "0"

\* C23: for a fixed catalog and search term, after a home request for
\* page p: the page holds at most 12 products, those at positions
\* (p-1)*12 .. p*12-1 of the matching products newest first; totalPages
\* is the matching count divided by 12, rounded up; once every page
\* 1..totalPages has been served, the pages together hold every matching
\* product exactly once; an absent, non-numeric or below-1 page parameter
\* serves page 1.
C23_Pagination ==
    home.currentPage > 0 =>
        LET p == home.currentPage
            count == Cardinality(Matching)
        IN  /\ p >= 1
            /\ Len(home.products) <= PRODUCTS_PER_PAGE
            /\ \E order \in OrderByCreatedAtDesc(Matching) :
                  /\ \A i \in DOMAIN home.products :
                        home.products[i] = order[(p - 1) * PRODUCTS_PER_PAGE + i].id
                  /\ \A j \in DOMAIN order :
                        (j > (p - 1) * PRODUCTS_PER_PAGE /\ j <= p * PRODUCTS_PER_PAGE)
                            => j - (p - 1) * PRODUCTS_PER_PAGE \in DOMAIN home.products
            /\ home.totalPages * PRODUCTS_PER_PAGE >= count
            /\ home.totalPages * PRODUCTS_PER_PAGE < count + PRODUCTS_PER_PAGE
            /\ (\A k \in 1..home.totalPages : home.served[k].done) =>
                  \A r \in Matching : TimesServed(r.id) = 1
            /\ ServesFirstPage(home.param) => p = 1

C25_Frame ==
    [][\A p \in Procs :
          (/\ InFlight(p) /\ procs'[p] # procs[p]
           /\ procs[p].req.op \in CartOps) =>
              /\ carts \subseteq carts'
              /\ users' = users
              /\ procs[p].req.op = "CHECKOUT" =>
                    /\ carts' = carts
                    /\ items' \subseteq items
                    /\ \A i \in items \ items' :
                          i.cartId = CartFindUnique(carts, procs[p].req.user).id]_vars

\* a checkout has emptied a cart of two lines; the Cart and User rows are
\* as before
C25_Witness ==
    \E p \in Procs :
        /\ Solo(p) /\ procs[p].req.op = "CHECKOUT" /\ Succeeded(p)
        /\ Cardinality(win.items) = 2 /\ items = {}
        /\ carts = win.carts /\ users = win.users
        /\ HasCart(carts, procs[p].req.user)

C27_ClientQuantityEdit ==
    \A p \in Procs :
        LET req == procs[p].req
            n == req.edit.quantity
        IN  (procs[p].pc # "idle" /\ req.edit.set) =>
                /\ n < 1 => req.op = "DELETE" /\ req.delta = 0
                /\ n >= 1 => req.op = "POST"
                /\ (Solo(p) /\ n >= 1) =>
                      /\ req.delta = n - BaseQty(req.user, req.productId)
                      /\ Succeeded(p)
                      /\ CurQty(req.user, req.productId) = n
                      /\ FrameKept(p)

\* the shopper lowered a line from a higher quantity to n and the stored
\* line holds n
C27_Witness ==
    \E p \in Procs :
        LET req == procs[p].req
        IN  /\ Solo(p) /\ req.edit.set /\ req.edit.quantity >= 1
            /\ req.delta < 0 /\ Succeeded(p)
            /\ CurQty(req.user, req.productId) = req.edit.quantity

\* C28: an add/adjust with a negative delta for a stored product, made by
\* a user without a Cart row and run with no other request interleaved,
\* is answered 400 'Cart item not found' and has created the user's Cart
\* row; and once any add/adjust that passed validation and the product
\* lookup has answered, with every store call served, its user has
\* exactly one Cart row, whatever the answer.
C28_CartCreatedOnFailedDecrement ==
    \A p \in Procs :
        LET u == procs[p].req.user
        IN  /\ (/\ Solo(p) /\ IsAdjust(p) /\ NoFault(p)
                /\ procs[p].req.delta < 0
                /\ ~HasCart(win.carts, u)) =>
                  /\ procs[p].res = Err(400, "Cart item not found")
                  /\ HasCart(carts, u)
                  /\ items = win.items
            /\ (Done(p) /\ IsAdjust(p) /\ NoFault(p)) =>
                  Cardinality({c \in carts : c.userId = u}) = 1

\* a user without a cart asked for a decrement, got 400, and now has a
\* cart with no line
C28_Witness ==
    \E p \in Procs :
        LET u == procs[p].req.user
        IN  /\ Solo(p) /\ IsAdjust(p)
            /\ procs[p].req.delta < 0
            /\ ~HasCart(win.carts, u)
            /\ procs[p].res.status = 400
            /\ HasCart(carts, u) /\ CurLines(u) = {}

\* C29: when the line an add/adjust with a negative delta has read is
\* deleted (by a remove-line or a checkout) before the add/adjust writes,
\* its update or delete by line id changes no CartItem row and the
\* request ends there, answered 500 'Failed to add to cart': the deleted
\* line is not re-created from the stale read.
C29_NoResurrection ==
    [][\A p \in Procs :
          (/\ procs[p].pc \in {"add_update", "add_delete"}
           /\ procs'[p] # procs[p]
           /\ ~procs'[p].fault
           /\ \A i \in items : i.id # procs[p].existing.id) =>
              /\ items' = items
              /\ procs'[p].pc \in {"done", "idle"}
              /\ procs'[p].pc = "done" =>
                    procs'[p].res = Err(500, "Failed to add to cart")]_vars

\* a decrement and a remove-line or checkout raced on a stored line: the
\* decrement was answered 500, the other request succeeded, and the line
\* is absent
C29_Witness ==
    \E p, q \in Procs :
        LET u == procs[p].req.user
            pid == procs[p].req.productId
        IN  /\ Pair /\ p # q
            /\ IsAdjust(p) /\ procs[p].req.delta < 0
            /\ procs[p].res = Err(500, "Failed to add to cart")
            /\ procs[q].req.op \in {"DELETE", "CHECKOUT"}
            /\ procs[q].req.user = u /\ Succeeded(q)
            /\ BaseQty(u, pid) > 0
            /\ ~LinePresent(carts, items, u, pid)

\* C30: authorize with an email and a password, run with no other request
\* interleaved, returns the id of the User with that email, and when
\* there was none it has created that User together with one Cart and
\* nothing else; however sign-ins repeat or interleave there is at most
\* one User row per email and one Cart row per user, and every successful
\* call returns the id of the one User with its email; a call without
\* email or password returns null and creates nothing.
C30_CredentialsSignIn ==
    /\ \A x, y \in users : x.email = y.email => x = y
    /\ \A c, d \in carts : c.userId = d.userId => c = d
    /\ \A p \in Procs :
          LET req == procs[p].req
              res == procs[p].res
              row == UserFindUnique(users, req.email)
              fresh == users \ win.users
          IN  (Done(p) /\ req.op = "AUTH") =>
                 IF req.email = "" \/ ~req.password
                 THEN /\ res = Err(401, "CredentialsSignin")
                      /\ Solo(p) => StoreUntouched
                 ELSE /\ Succeeded(p) => row # NoUserRow /\ res.id = row.id
                      /\ Solo(p) =>
                            /\ Succeeded(p)
                            /\ items = win.items
                            /\ IF UserFindUnique(win.users, req.email) # NoUserRow
                               THEN users = win.users /\ carts = win.carts
                               ELSE /\ fresh = {row}
                                    /\ win.users \subseteq users
                                    /\ win.carts \subseteq carts
                                    /\ \A c \in carts \ win.carts : c.userId = row.id
                                    /\ Cardinality(carts \ win.carts) = 1

\* two sign-ins with one new email ran concurrently; both returned the
\* same id and one User row with one Cart row was created
C30_Witness ==
    /\ Pair
    /\ \A p \in Procs :
          /\ procs[p].req.op = "AUTH" /\ procs[p].req.email = NewEmail
          /\ Succeeded(p)
    /\ procs["a"].res.id = procs["b"].res.id
    /\ UserFindUnique(win.users, NewEmail) = NoUserRow
    /\ Cardinality(users \ win.users) = 1
    /\ Cardinality(carts \ win.carts) = 1

====
